---- MODULE Spec2Model ----
(***************************************************************************)
(* Model of src/src/excel_processor.py: ModuleTranslationAugmentor.        *)
(*                                                                         *)
(* A run loads the module masters, computes each module's offset inside    *)
(* the en_US column of the first language file, slices every language file *)
(* at those offsets and writes one merged table per module.                *)
(*                                                                         *)
(* Indices (offsets, start, match_index) are Python's 0-based indices;     *)
(* TLA+ sequences are 1-based, so Python's H[i] is H[i + 1] here.          *)
(*                                                                         *)
(* File stems are sequences of ASCII codes, so that str.lower() and the    *)
(* sort by lowercased stem are computed, not assumed.                      *)
(*                                                                         *)
(* Cell values of the reference columns are the strings obtained after     *)
(* .astype(str); cells of a translated column are opaque to the program    *)
(* and are modelled as the token <<file stem, column, row>>, so that any    *)
(* positional error in a slice is visible; a table holds the names of its  *)
(* columns, and Column gives the cells of one of them.                     *)
(***************************************************************************)
EXTENDS Integers, Sequences, FiniteSets, TLC

\* ------------------------------------------------------------------ bounds
MaxLocales == 3      \* language files in TRANSLATIONS_RAW_DIR
MaxRows == 2         \* rows of one module master
MaxLangRows == 3     \* rows of one language file
MaxTransCols == 2    \* columns of a language file besides en_US
MaxHay == 4          \* haystack length in the locator specification
MaxNeedle == 2       \* needle length in the locator specification
MaxStart == 5        \* start index in the locator specification

\* Cell strings of the reference columns.
Strings == {"hello", "foo"}

\* Candidate file stems: "B", "a" for modules; "EN", "de", "DE" for locales.
ModuleStems == {<<66>>, <<97>>}
LocaleStems == {<<69, 78>>, <<100, 101>>, <<68, 69>>}

SeqsUpTo(S, n) == UNION {[1..k -> S] : k \in 0..n}

InjSeqsUpTo(S, n) ==
    {s \in SeqsUpTo(S, n) : \A i, j \in 1..Len(s) : i # j => s[i] # s[j]}

Range(s) == {s[i] : i \in 1..Len(s)}

\* ------------------------------------------------------ pure helper functions

\* str.lower() on one ASCII code.
LowerChar(c) == IF c >= 65 /\ c <= 90 THEN c + 32 ELSE c

\* Path(filename).stem.lower()
get_locale_code_from_filename(stem) == [i \in 1..Len(stem) |-> LowerChar(stem[i])]

\* Python's str comparison a < b.
StrLess(a, b) ==
    \E k \in 1..(Len(b)) :
        /\ \A i \in 1..(k - 1) : i <= Len(a) /\ a[i] = b[i]
        /\ k - 1 <= Len(a)
        /\ (k > Len(a) \/ a[k] < b[k])

\* key=lambda p: p.stem.lower()
SortKey(stem) == get_locale_code_from_filename(stem)

\* list.sort(key=...): a stable sort. The element at index i goes after every
\* element with a smaller key and after the earlier elements with an equal key.
SortedPos(files, i) ==
    1 + Cardinality({j \in 1..Len(files) :
                        \/ StrLess(SortKey(files[j]), SortKey(files[i]))
                        \/ j < i /\ SortKey(files[j]) = SortKey(files[i])})

SortFiles(files) ==
    [p \in 1..Len(files) |->
        files[CHOOSE i \in 1..Len(files) : SortedPos(files, i) = p]]

Min(a, b) == IF a < b THEN a ELSE b

\* Python's list slice s[lo:hi] for 0 <= lo, 0 <= hi (clipped to the list).
PySlice(s, lo, hi) ==
    LET h == Min(hi, Len(s))
    IN IF lo >= h THEN <<>> ELSE SubSeq(s, lo + 1, h)

\* The scan loop of _find_subsequence_index: for i in range(i, n - m + 1).
RECURSIVE ScanFrom(_, _, _)
ScanFrom(haystack_, needle_, i) ==
    LET n == Len(haystack_)
        m == Len(needle_)
    IN IF i >= n - m + 1 THEN -1
       ELSE IF PySlice(haystack_, i, i + m) = needle_ THEN i
       ELSE ScanFrom(haystack_, needle_, i + 1)

\* Mutant: the scan stops one position early (range(start, n - m)).
RECURSIVE ScanShort(_, _, _)
ScanShort(haystack_, needle_, i) ==
    LET n == Len(haystack_)
        m == Len(needle_)
    IN IF i >= n - m THEN -1
       ELSE IF PySlice(haystack_, i, i + m) = needle_ THEN i
       ELSE ScanShort(haystack_, needle_, i + 1)

find_subsequence_index_short(haystack_, needle_, start_) ==
    IF Len(needle_) = 0 \/ Len(haystack_) < Len(needle_) THEN -1
    ELSE ScanShort(haystack_, needle_, start_)

\* Mutant: the scan ignores start and only compares the first element.
RECURSIVE ScanFirstOnly(_, _, _)
ScanFirstOnly(haystack_, needle_, i) ==
    LET n == Len(haystack_)
        m == Len(needle_)
    IN IF i >= n - m + 1 THEN -1
       ELSE IF haystack_[i + 1] = needle_[1] THEN i
       ELSE ScanFirstOnly(haystack_, needle_, i + 1)

find_subsequence_index_first_only(haystack_, needle_, start_) ==
    IF Len(needle_) = 0 \/ Len(haystack_) < Len(needle_) THEN -1
    ELSE ScanFirstOnly(haystack_, needle_, 0)

\* ModuleTranslationAugmentor._find_subsequence_index
find_subsequence_index(haystack_, needle_, start_) ==
    IF Len(needle_) = 0 \/ Len(haystack_) < Len(needle_) THEN -1
    ELSE ScanFrom(haystack_, needle_, start_)


\* ------------------------------------------------------------- data frames

\* read_excel_safe returning None, and the value of an unset local.
NoDF == [readable |-> FALSE, has_src |-> FALSE, nrows |-> 0,
         en_US |-> <<>>, trans_cols |-> <<>>]

\* The names of the c columns of a language file besides en_US.
TransCols(c) == [k \in 1..c |-> k]

\* The cells of the column `col` of the table df read from `file`.
Column(file, df, col) == [r \in 1..df.nrows |-> <<file, col, r - 1>>]

\* What read_excel_safe can return for a language file: None, or a table with
\* or without the en_US column (TRANSLATION_SOURCE_COL). A table without it is
\* rejected before its other columns are looked at; it is given the one shape
\* that passes every later check, a single translated column.
LangDFs ==
    {NoDF}
    \cup {[readable |-> TRUE, has_src |-> TRUE, nrows |-> Len(ref),
           en_US |-> ref, trans_cols |-> TransCols(c)] :
             ref \in SeqsUpTo(Strings, MaxLangRows), c \in 0..MaxTransCols}
    \cup {[readable |-> TRUE, has_src |-> FALSE, nrows |-> n,
           en_US |-> <<>>, trans_cols |-> TransCols(1)] :
             n \in 0..MaxLangRows}

\* What read_excel_safe can return for a module master: None, or a table with
\* or without the "English (US) [Primary]" column (SOURCE_LANGUAGE_COL).
NoModuleDF == [readable |-> FALSE, has_src |-> FALSE, rows |-> <<>>]

ModuleDFs ==
    {NoModuleDF, [readable |-> TRUE, has_src |-> FALSE, rows |-> <<>>]}
    \cup {[readable |-> TRUE, has_src |-> TRUE, rows |-> l] :
             l \in SeqsUpTo(Strings, MaxRows)}

\* Python dicts are functions; their iteration order is the insertion order,
\* which for every dict of the class is the order of master_files.
EmptyMap == [x \in {} |-> 0]

Put(f, k, v) == [x \in (DOMAIN f) \cup {k} |-> IF x = k THEN v ELSE f[x]]

\* What the iteration saw of the table it read: the facts its checks test.
Shape(df) == [readable |-> df.readable, has_src |-> df.has_src,
              ncols |-> Len(df.trans_cols), nrows |-> df.nrows]

\* ------------------------------------------------------------------- state
VARIABLES
    modules_glob,          \* MODULES_DIR.glob("*.xlsx"), in glob order
    translations_glob,     \* TRANSLATIONS_RAW_DIR.glob("*.xlsx"), in glob order
    pc,                    \* position of the run
    result,                \* value returned by run(): "none", "True", "False"
    failure,               \* the error logged by the return False taken, or "none"
    master_files,          \* sorted module files
    load_idx,              \* position of the loop over master_files
    cumulative,
    module_bases,
    module_english_lists,
    total_rows,
    lang_files,            \* sorted language files
    first_lang_df,         \* content of the first language file, kept for its
                           \* second read by the merge
    first_shape,           \* what the offset computation saw of that file
    concatenated_english,
    match_idx,             \* position of the loop over module_english_lists
    match_calls,           \* calls of _find_subsequence_index made by the run
    offsets,
    merged_dfs,
    lang_idx,              \* position of the loop over lang_files
    df_shape,              \* what the last iteration saw of the table it read
    attempted,             \* language files whose iteration has completed
    last_outcome,          \* how the last completed iteration ended
    warnings,              \* modules warned of a mismatch in that iteration
    write_idx,             \* position of the loop over merged_dfs
    writes,                \* to_excel calls made so far, with their outcome
    output,                \* tables present in OUTPUT_DIR
    haystack, needle, start, match_index, located   \* one call of the locator

runVars == <<modules_glob, translations_glob, pc, result, failure, master_files,
             load_idx, cumulative, module_bases, module_english_lists, total_rows,
             lang_files, first_lang_df, first_shape, concatenated_english,
             match_idx, match_calls, offsets, merged_dfs, lang_idx, df_shape, attempted,
             last_outcome, warnings, write_idx, writes, output>>

locVars == <<haystack, needle, start, match_index, located>>

vars == <<runVars, locVars>>


\* ----------------------------------------------- decisions taken by the code

\* run(): "if not self._load_module_masters(): return False";
\* `at` is the position reached when the method has not returned False.
RunAfterLoad(ok, at) == IF ok THEN at ELSE "Failed"

\* Mutant: run() ignores the result of _compute_offsets_from_first_language.
RunAfterOffsetsIgnored(ok, at) == IF ok THEN at ELSE "OffsetsComputed"

\* run(): "if not self._compute_offsets_from_first_language(): return False";
\* `at` is the position reached when the method has not returned False.
RunAfterOffsets(ok, at) == IF ok THEN at ELSE "Failed"

\* Mutant: the row-count check is missing.
RowCountMismatchNever(n, total) == FALSE

\* "if len(concatenated_english) != self.total_rows"
RowCountMismatch(n, total) == n # total

\* Mutant: the offset is recorded before match_index is tested.
RecordOffsetAlways(offs, module_name, idx, eng_list) ==
    Put(offs, module_name, <<idx, idx + Len(eng_list)>>)

\* Mutant: end_idx is computed one short.
RecordOffsetShort(offs, module_name, idx, eng_list) ==
    IF idx < 0 THEN offs
    ELSE Put(offs, module_name, <<idx, idx + Len(eng_list) - 1>>)

\* The body of the matching loop after the call of _find_subsequence_index:
\* nothing is recorded when match_index < 0.
RecordOffset(offs, module_name, idx, eng_list) ==
    IF idx < 0 THEN offs
    ELSE Put(offs, module_name, <<idx, idx + Len(eng_list)>>)

\* Mutant: only a file without any translated column is rejected.
ValidateLocaleAnyCols(df, total) ==
    IF ~ df.readable THEN "unreadable"
    ELSE IF ~ df.has_src THEN "missing_src"
    ELSE IF Len(df.trans_cols) = 0 THEN "bad_cols"
    ELSE IF df.nrows # total THEN "bad_rows"
    ELSE "ok"

\* Mutant: the en_US column is not required.
ValidateLocaleNoSrcCheck(df, total) ==
    IF ~ df.readable THEN "unreadable"
    ELSE IF Len(df.trans_cols) # 1 THEN "bad_cols"
    ELSE IF df.nrows # total THEN "bad_rows"
    ELSE "ok"

\* The checks of one language file in the merge loop, in the code's order.
ValidateLocale(df, total) ==
    IF ~ df.readable THEN "unreadable"
    ELSE IF ~ df.has_src THEN "missing_src"
    ELSE IF Len(df.trans_cols) # 1 THEN "bad_cols"
    ELSE IF df.nrows # total THEN "bad_rows"
    ELSE "ok"

\* Mutant: a module whose English text mismatches is skipped.
MergeColumnSkipMismatch(df_merged, locale, values, eng_base, eng_slice) ==
    IF eng_base # eng_slice THEN df_merged
    ELSE [df_merged EXCEPT !.added = Put(df_merged.added, locale, values)]

\* "df_merged[locale] = slice_lang[locale].values", after the sanity check that
\* only warns.
MergeColumn(df_merged, locale, values, eng_base, eng_slice) ==
    [df_merged EXCEPT !.added = Put(df_merged.added, locale, values)]

\* Mutant: the first failed write ends the loop.
WriteNextBreak(idx, ok, n) == IF ok THEN idx + 1 ELSE n + 1

\* The write loop: the exception of to_excel is caught inside the loop body.
WriteNext(idx, ok, n) == idx + 1

\* -------------------------------------------------------------------- Init
\* The state of a ModuleTranslationAugmentor after __init__.
Constructed ==
    /\ pc = "Idle"
    /\ result = "none"
    /\ failure = "none"
    /\ master_files = <<>>
    /\ load_idx = 0
    /\ cumulative = 0
    /\ module_bases = EmptyMap
    /\ module_english_lists = EmptyMap
    /\ total_rows = 0
    /\ lang_files = <<>>
    /\ first_lang_df = NoDF
    /\ first_shape = Shape(NoDF)
    /\ concatenated_english = <<>>
    /\ match_idx = 0
    /\ match_calls = 0
    /\ offsets = EmptyMap
    /\ merged_dfs = EmptyMap
    /\ lang_idx = 0
    /\ df_shape = Shape(NoDF)
    /\ attempted = <<>>
    /\ last_outcome = "none"
    /\ warnings = {}
    /\ write_idx = 0
    /\ writes = <<>>
    /\ output = EmptyMap

Init ==
    /\ modules_glob \in InjSeqsUpTo(ModuleStems, Cardinality(ModuleStems))
    /\ translations_glob \in InjSeqsUpTo(LocaleStems, MaxLocales)
    /\ Constructed
    /\ haystack = <<>>
    /\ needle = <<>>
    /\ start = 0
    /\ match_index = -1
    /\ located = FALSE

inputVars == <<modules_glob, translations_glob>>

loadVars == <<master_files, load_idx, cumulative, module_bases,
              module_english_lists, total_rows>>

offsetVars == <<lang_files, first_lang_df, first_shape, concatenated_english,
                match_idx, match_calls, offsets>>

mergeVars == <<merged_dfs, lang_idx, df_shape, attempted, last_outcome, warnings>>

writeVars == <<write_idx, writes, output>>

\* ---------------------------------------------------- _load_module_masters

\* Discovery and sort of the module masters.
LoadModuleMastersStart ==
    /\ pc = "Idle"
    /\ IF modules_glob = <<>>
       THEN /\ pc' = RunAfterLoad(FALSE, "LoadingModules")
            /\ result' = "False"
            /\ failure' = "no_module_files"
            /\ UNCHANGED <<master_files, load_idx>>
       ELSE /\ pc' = RunAfterLoad(TRUE, "LoadingModules")
            /\ master_files' = SortFiles(modules_glob)
            /\ load_idx' = 1
            /\ UNCHANGED <<result, failure>>
    /\ UNCHANGED <<inputVars, cumulative, module_bases, module_english_lists,
                   total_rows, offsetVars, mergeVars, writeVars, locVars>>

\* One iteration of "for file_path in master_files".
LoadModule ==
    /\ pc = "LoadingModules"
    /\ load_idx <= Len(master_files)
    /\ \E df \in ModuleDFs :
        LET module_name == master_files[load_idx]
            english_list == df.rows
        IN IF ~ df.readable
           THEN /\ pc' = RunAfterLoad(FALSE, "LoadingModules")
                /\ result' = "False"
                /\ failure' = "module_unreadable"
                /\ UNCHANGED <<load_idx, cumulative, module_bases,
                               module_english_lists>>
           ELSE IF ~ df.has_src
           THEN /\ pc' = RunAfterLoad(FALSE, "LoadingModules")
                /\ result' = "False"
                /\ failure' = "module_missing_column"
                /\ UNCHANGED <<load_idx, cumulative, module_bases,
                               module_english_lists>>
           ELSE /\ module_bases' = Put(module_bases, module_name, df)
                /\ module_english_lists' =
                       Put(module_english_lists, module_name, english_list)
                /\ cumulative' = cumulative + Len(english_list)
                /\ load_idx' = load_idx + 1
                /\ UNCHANGED <<pc, result, failure>>
    /\ UNCHANGED <<inputVars, master_files, total_rows, offsetVars, mergeVars,
                   writeVars, locVars>>

\* After the loop: total_rows is set and the method returns True.
LoadModuleMastersEnd ==
    /\ pc = "LoadingModules"
    /\ load_idx > Len(master_files)
    /\ total_rows' = cumulative
    /\ pc' = RunAfterLoad(TRUE, "ModulesLoaded")
    /\ UNCHANGED <<inputVars, result, failure, master_files, load_idx, cumulative,
                   module_bases, module_english_lists, offsetVars, mergeVars,
                   writeVars, locVars>>

\* ------------------------------------ _compute_offsets_from_first_language

\* The checks of the first language file, in the code's order: the error that
\* makes the method return False, or "none".
FirstLanguageCheck(df, total) ==
    IF ~ df.readable THEN "first_lang_unreadable"
    ELSE IF ~ df.has_src THEN "first_lang_missing_column"
    ELSE IF RowCountMismatch(Len(df.en_US), total) THEN "row_count_mismatch"
    ELSE "none"

\* Discovery, read of the first language file, column and row-count checks.
\* When the method returns False its locals are dead and the file is not read
\* again: only what the checks saw of the table is kept.
ComputeOffsetsStart ==
    /\ pc = "ModulesLoaded"
    /\ IF translations_glob = <<>>
       THEN /\ pc' = RunAfterOffsets(FALSE, "MatchingModules")
            /\ result' = IF RunAfterOffsets(FALSE, "MatchingModules") = "Failed"
                         THEN "False" ELSE result
            /\ failure' = "no_language_files"
            /\ UNCHANGED <<lang_files, first_lang_df, first_shape,
                           concatenated_english, match_idx>>
       ELSE \E df \in LangDFs :
              LET why == FirstLanguageCheck(df, total_rows)
                  to == RunAfterOffsets(why = "none", "MatchingModules")
              IN /\ lang_files' = SortFiles(translations_glob)
                 /\ first_shape' = Shape(df)
                 /\ first_lang_df' = IF why = "none" THEN df ELSE NoDF
                 /\ concatenated_english' =
                        IF why = "none" THEN df.en_US ELSE concatenated_english
                 /\ match_idx' = IF why = "none" THEN 1 ELSE match_idx
                 /\ failure' = why
                 /\ pc' = to
                 /\ result' = IF to = "Failed" THEN "False" ELSE result
    /\ UNCHANGED <<inputVars, loadVars, match_calls, offsets, mergeVars,
                   writeVars, locVars>>

\* One iteration of "for module_name, eng_list in module_english_lists.items()".
ComputeOffsetsMatch ==
    /\ pc = "MatchingModules"
    /\ match_idx <= Len(master_files)
    /\ LET module_name == master_files[match_idx]
           eng_list == module_english_lists[module_name]
           idx == find_subsequence_index(concatenated_english, eng_list, 0)
           to == RunAfterOffsets(idx >= 0, "MatchingModules")
       IN /\ match_calls' = match_calls + 1
          /\ offsets' = RecordOffset(offsets, module_name, idx, eng_list)
          /\ match_idx' = IF idx < 0 THEN match_idx ELSE match_idx + 1
          /\ failure' = IF idx < 0 THEN "module_not_locatable" ELSE failure
          /\ pc' = to
          /\ result' = IF to = "Failed" THEN "False" ELSE result
    /\ UNCHANGED <<inputVars, loadVars, lang_files, first_lang_df, first_shape,
                   concatenated_english, mergeVars, writeVars, locVars>>

\* After the loop: the method returns True.
ComputeOffsetsEnd ==
    /\ pc = "MatchingModules"
    /\ match_idx > Len(master_files)
    /\ pc' = RunAfterOffsets(TRUE, "OffsetsComputed")
    /\ UNCHANGED <<inputVars, result, failure, loadVars, offsetVars, mergeVars,
                   writeVars, locVars>>


\* ------------------------------ _load_all_language_files_and_write_modules

\* Discovery and sort of the language files, and the copies of the bases.
MergeStart ==
    /\ pc = "OffsetsComputed"
    /\ IF translations_glob = <<>>
       THEN /\ pc' = "Finalized"
            /\ result' = "True"
            /\ UNCHANGED <<lang_files, merged_dfs, lang_idx>>
       ELSE /\ lang_files' = SortFiles(translations_glob)
            /\ merged_dfs' = [m \in DOMAIN module_bases |->
                                 [base |-> module_bases[m], added |-> EmptyMap]]
            /\ lang_idx' = 1
            /\ pc' = "MergingLocale"
            /\ UNCHANGED result
    /\ UNCHANGED <<inputVars, failure, loadVars, first_lang_df, first_shape,
                   concatenated_english, match_idx, match_calls, offsets, df_shape,
                   attempted, last_outcome, warnings, writeVars, locVars>>

\* Module names in the iteration order of self.offsets.
OffsetModules == SelectSeq(master_files, LAMBDA m : m \in DOMAIN offsets)

\* The body of one iteration of "for file_path in lang_files": the read, the
\* checks, then the loop over self.offsets. The first file is the one already
\* read for the offsets.
ProcessLanguageFile ==
    /\ pc = "MergingLocale"
    /\ lang_idx <= Len(lang_files)
    /\ Len(attempted) < lang_idx
    /\ \E df_lang \in LangDFs :
        LET file == lang_files[lang_idx]
            locale == get_locale_code_from_filename(file)
            outcome == ValidateLocale(df_lang, total_rows)
            translated_col == df_lang.trans_cols[1]
            translated == Column(file, df_lang, translated_col)
            values(m) == PySlice(translated, offsets[m][1], offsets[m][2])
            eng_base(m) == module_bases[m].rows
            eng_slice(m) == PySlice(df_lang.en_US, offsets[m][1], offsets[m][2])
        IN /\ lang_idx = 1 => df_lang = first_lang_df
           /\ df_shape' = Shape(df_lang)
           /\ last_outcome' = outcome
           /\ IF outcome # "ok"
              THEN /\ attempted' = Append(attempted, file)
                   /\ warnings' = {}
                   /\ UNCHANGED <<pc, merged_dfs>>
              ELSE IF \E m \in DOMAIN offsets : Len(values(m)) # Len(eng_base(m))
              THEN \* pandas raises ValueError: the lengths differ
                   /\ pc' = "Crashed"
                   /\ UNCHANGED <<merged_dfs, warnings, attempted>>
              ELSE /\ merged_dfs' =
                         [m \in DOMAIN merged_dfs |->
                             IF m \in DOMAIN offsets
                             THEN MergeColumn(merged_dfs[m], locale, values(m),
                                              eng_base(m), eng_slice(m))
                             ELSE merged_dfs[m]]
                   /\ warnings' = {m \in DOMAIN offsets : eng_base(m) # eng_slice(m)}
                   /\ attempted' = Append(attempted, file)
                   /\ UNCHANGED pc
    /\ UNCHANGED <<inputVars, result, failure, loadVars, offsetVars, lang_idx,
                   writeVars, locVars>>

\* The loop moves on to the next file: the locals of the finished iteration
\* are dead.
NextLanguageFile ==
    /\ pc = "MergingLocale"
    /\ lang_idx <= Len(lang_files)
    /\ Len(attempted) = lang_idx
    /\ lang_idx' = lang_idx + 1
    /\ df_shape' = Shape(NoDF)
    /\ last_outcome' = "none"
    /\ warnings' = {}
    /\ UNCHANGED <<inputVars, pc, result, failure, loadVars, offsetVars,
                   merged_dfs, attempted, writeVars, locVars>>

\* The loop over lang_files is exhausted.
MergeLoopEnd ==
    /\ pc = "MergingLocale"
    /\ lang_idx > Len(lang_files)
    /\ pc' = "Writing"
    /\ write_idx' = 1
    /\ UNCHANGED <<inputVars, result, failure, loadVars, offsetVars, mergeVars,
                   writes, output, locVars>>

\* One iteration of "for module_name, df_final in merged_dfs.items()":
\* to_excel either writes the table or raises, and the exception is caught.
WriteModule ==
    /\ pc = "Writing"
    /\ write_idx <= Len(master_files)
    /\ \E ok \in BOOLEAN :
        LET module_name == master_files[write_idx]
        IN /\ writes' = Append(writes, [module |-> module_name, ok |-> ok])
           /\ output' = IF ok THEN Put(output, module_name, merged_dfs[module_name])
                        ELSE output
           /\ write_idx' = WriteNext(write_idx, ok, Len(master_files))
    /\ UNCHANGED <<inputVars, pc, result, failure, loadVars, offsetVars, mergeVars,
                   locVars>>

\* The write loop is exhausted: the method returns and run() returns True.
RunReturn ==
    /\ pc = "Writing"
    /\ write_idx > Len(master_files)
    /\ pc' = "Finalized"
    /\ result' = "True"
    /\ UNCHANGED <<inputVars, failure, loadVars, offsetVars, mergeVars, writeVars,
                   locVars>>

Next ==
    \/ LoadModuleMastersStart
    \/ LoadModule
    \/ LoadModuleMastersEnd
    \/ ComputeOffsetsStart
    \/ ComputeOffsetsMatch
    \/ ComputeOffsetsEnd
    \/ MergeStart
    \/ ProcessLanguageFile
    \/ NextLanguageFile
    \/ MergeLoopEnd
    \/ WriteModule
    \/ RunReturn

Spec == Init /\ [][Next]_vars

\* The steps of _load_all_language_files_and_write_modules and the return of
\* run() after it.
MergeAndWrite ==
    \/ MergeStart
    \/ ProcessLanguageFile
    \/ NextLanguageFile
    \/ MergeLoopEnd
    \/ WriteModule
    \/ RunReturn

\* The runs over a translations directory of at most two language files.
FairInit ==
    /\ Init
    /\ Len(translations_glob) <= 2

\* The program is sequential and every step of it terminates: once the merge
\* can take a step, it takes it.
FairSpec == FairInit /\ [][Next]_vars /\ WF_vars(MergeAndWrite)

\* --------------------------------------------- the locator called on its own

\* Any haystack, needle and start >= 0; no run is in progress.
LocateInit ==
    /\ modules_glob = <<>>
    /\ translations_glob = <<>>
    /\ Constructed
    /\ haystack \in SeqsUpTo(Strings, MaxHay)
    /\ needle \in SeqsUpTo(Strings, MaxNeedle)
    /\ start \in 0..MaxStart
    /\ match_index = -1
    /\ located = FALSE

\* One call of _find_subsequence_index(haystack, needle, start).
Locate ==
    /\ ~ located
    /\ match_index' = find_subsequence_index(haystack, needle, start)
    /\ located' = TRUE
    /\ UNCHANGED <<runVars, haystack, needle, start>>

LocateNext == Locate

LocateSpec == LocateInit /\ [][LocateNext]_vars


\* ================================================================ properties

\* Python's H[i : i + len(N)] == N, for i >= 0.
SliceEquals(H, N, i) == PySlice(H, i, i + Len(N)) = N

\* N occurs in H at the 0-based index i, element by element.
OccursAt(H, N, i) ==
    /\ i >= 0
    /\ i + Len(N) <= Len(H)
    /\ \A k \in 1..Len(N) : H[i + k] = N[k]

\* C1: whenever _find_subsequence_index(H, N, start), with N non-empty and
\* start >= 0, returns an index i other than -1, then i >= start, H[i : i+len(N)]
\* equals N element by element, and no j with start <= j < i has
\* H[j : j+len(N)] == N: the match returned is exact and leftmost.
C1_MatchExactAndLeftmost ==
    (located /\ needle # <<>> /\ match_index # -1) =>
        /\ match_index >= start
        /\ OccursAt(haystack, needle, match_index)
        /\ \A j \in start..(match_index - 1) : ~ SliceEquals(haystack, needle, j)

\* A call that skips an occurrence before start and returns the first of two
\* occurrences after it.
C1_Witness ==
    /\ located
    /\ needle # <<>>
    /\ start > 0
    /\ match_index > start
    /\ \E j \in 0..(start - 1) : OccursAt(haystack, needle, j)
    /\ \E j \in (match_index + 1)..Len(haystack) : OccursAt(haystack, needle, j)

\* C2: _find_subsequence_index(H, N, start) returns -1 exactly when N is empty,
\* or len(H) < len(N), or no i >= start has H[i : i+len(N)] == N.
C2_NotFoundExactly ==
    located =>
        ((match_index = -1) <=>
            \/ needle = <<>>
            \/ Len(haystack) < Len(needle)
            \/ ~ \E i \in start..(Len(haystack) + 1) : SliceEquals(haystack, needle, i))

\* A call that reports "not found" although the needle occurs, before start.
C2_Witness ==
    /\ located
    /\ match_index = -1
    /\ needle # <<>>
    /\ Len(needle) < Len(haystack)
    /\ start <= Len(haystack) - Len(needle)
    /\ \E j \in 0..(start - 1) : OccursAt(haystack, needle, j)

\* _compute_offsets_from_first_language has returned True.
AfterOffsets == pc \in {"OffsetsComputed", "MergingLocale", "Writing", "Finalized"}

\* The modules loaded by _load_module_masters.
LoadedModules == DOMAIN module_english_lists

\* Module m has a recorded offset that is in range, as long as the module, and
\* the leftmost place of the reference where the module's list occurs.
OffsetValid(m) ==
    /\ m \in DOMAIN offsets
    /\ LET s == offsets[m][1]
           e == offsets[m][2]
           ref == concatenated_english
           list == module_english_lists[m]
       IN /\ 0 <= s /\ s <= e /\ e <= Len(ref)
          /\ e - s = Len(module_bases[m].rows)
          /\ \A k \in 1..(e - s) : ref[s + k] = list[k]
          /\ Len(list) = e - s
          /\ \A j \in 0..(s - 1) : ~ OccursAt(ref, list, j)

\* C3: after a successful offset computation every loaded module has exactly one
\* recorded offset (s, e) with 0 <= s <= e <= len(reference), e - s the module's
\* row count, reference[s:e] equal to the module's list, and s the leftmost match
\* found from position 0 independently of the other modules.
C3_OffsetsExactLeftmost ==
    AfterOffsets =>
        /\ LoadedModules = Range(master_files)
        /\ DOMAIN offsets = LoadedModules
        /\ \A m \in LoadedModules : OffsetValid(m)

\* Modules a = [hello, hello] and B = [foo] against [foo, hello, hello]:
\* a = (1, 3), B = (0, 1); the module sorted first lies after the other one.
C3_Witness ==
    /\ pc = "OffsetsComputed"
    /\ master_files = << <<97>>, <<66>> >>
    /\ module_english_lists[<<97>>] = <<"hello", "hello">>
    /\ module_english_lists[<<66>>] = <<"foo">>
    /\ concatenated_english = <<"foo", "hello", "hello">>
    /\ offsets[<<97>>] = <<1, 3>>
    /\ offsets[<<66>>] = <<0, 1>>

\* No output table holds a locale column, and nothing was merged or written.
NothingMergedOrWritten ==
    /\ \A m \in DOMAIN merged_dfs : merged_dfs[m].added = EmptyMap
    /\ attempted = <<>>
    /\ writes = <<>>
    /\ output = EmptyMap

\* C4: if the reference sequence's length differs from the sum of the modules'
\* row counts, offset computation fails at once: no subsequence match is
\* attempted, no offset is recorded, no output table gains a locale column.
C4_RowCountGate ==
    (/\ lang_files # <<>>
     /\ first_shape.readable
     /\ first_shape.has_src
     /\ first_shape.nrows # total_rows) =>
        /\ pc = "Failed"
        /\ result = "False"
        /\ match_calls = 0
        /\ offsets = EmptyMap
        /\ NothingMergedOrWritten

\* A run of two modules stopped by the row-count check.
C4_Witness ==
    /\ pc = "Failed"
    /\ Len(master_files) = 2
    /\ total_rows = 3
    /\ first_shape.has_src
    /\ first_shape.nrows = 2
    /\ match_calls = 0

\* The matching loop returned False: a module was not found in the reference.
ModuleNotLocatable == pc = "Failed" /\ failure = "module_not_locatable"

\* C5, as claimed: after a failed build the offset mapping holds no entry for any
\* module, including the modules matched before the offending one.
C5_NoPartialOffsets ==
    ModuleNotLocatable => DOMAIN offsets = {}

\* C5, amended: when a module's list is not found the build fails, run() returns
\* False and nothing is merged or written; self.offsets keeps the valid entries
\* of the modules matched before the offending one, and holds none for the
\* offending module and the modules after it.
C5_PartialOffsetsKept ==
    ModuleNotLocatable =>
        /\ result = "False"
        /\ match_idx \in 1..Len(master_files)
        /\ ~ \E j \in 0..Len(concatenated_english) :
               /\ module_english_lists[master_files[match_idx]] # <<>>
               /\ OccursAt(concatenated_english,
                           module_english_lists[master_files[match_idx]], j)
        /\ DOMAIN offsets = {master_files[i] : i \in 1..(match_idx - 1)}
        /\ \A m \in DOMAIN offsets : OffsetValid(m)
        /\ merged_dfs = EmptyMap
        /\ NothingMergedOrWritten

\* The first module was matched, the second was not: one entry is left behind.
C5_Witness ==
    /\ ModuleNotLocatable
    /\ match_idx = 2
    /\ DOMAIN offsets = {master_files[1]}

\* An iteration of the loop over lang_files completes in this step.
IterationDone == pc = "MergingLocale" /\ attempted' # attempted

\* The step skips the file of the iteration: no table changes, and the loop goes
\* on with the run not aborted.
FileSkipped ==
    /\ merged_dfs' = merged_dfs
    /\ attempted' = Append(attempted, lang_files[lang_idx])
    /\ pc' = "MergingLocale"
    /\ result' = "none"

\* C6: during merging, a locale source with zero or more than one column besides
\* the reference column, or whose row count differs from the reference
\* sequence's length, is skipped entirely: no output table gains or changes a
\* column, and the run goes on to process every remaining locale source.
C6_BadShapeSkipped ==
    /\ [][(/\ IterationDone
           /\ df_shape'.readable
           /\ df_shape'.has_src
           /\ \/ df_shape'.ncols # 1
              \/ df_shape'.nrows # Len(concatenated_english)) => FileSkipped]_vars
    /\ [](pc \in {"Writing", "Finalized"} => attempted = lang_files)

\* The first of two files had two translated columns and was skipped; the second
\* was merged, and the run finished.
C6_Witness ==
    /\ pc = "Finalized"
    /\ Len(lang_files) = 2
    /\ Len(first_lang_df.trans_cols) = 2
    /\ master_files # <<>>
    /\ get_locale_code_from_filename(lang_files[1])
           # get_locale_code_from_filename(lang_files[2])
    /\ \A m \in DOMAIN merged_dfs :
           DOMAIN merged_dfs[m].added = {get_locale_code_from_filename(lang_files[2])}

\* The first language file was read and is unreadable or lacks en_US.
FirstLocaleUnusable ==
    /\ lang_files # <<>>
    /\ ~ first_shape.readable \/ ~ first_shape.has_src

\* C7, as claimed: for every locale source, the lexicographically first one
\* included, being unreadable or missing the reference column only skips that
\* locale and never aborts the run.
C7_FirstLocaleRecoverable ==
    FirstLocaleUnusable => pc # "Failed"

\* C7, amended: for every locale source but the lexicographically first, being
\* unreadable or missing the reference column only skips that locale, and the
\* run goes on; for the first one, which is the reference sequence, it fails
\* the offset computation and aborts the run before any merge or write.
C7_OnlyLaterLocalesRecoverable ==
    /\ [][(/\ IterationDone
           /\ ~ df_shape'.readable \/ ~ df_shape'.has_src)
              => (lang_idx > 1 /\ FileSkipped)]_vars
    /\ [](FirstLocaleUnusable =>
            /\ pc = "Failed"
            /\ result = "False"
            /\ offsets = EmptyMap
            /\ merged_dfs = EmptyMap
            /\ NothingMergedOrWritten)

\* The second of three files lacked en_US and was skipped; the third is next.
C7_Witness ==
    /\ pc = "MergingLocale"
    /\ Len(lang_files) = 3
    /\ Len(attempted) = 2
    /\ df_shape.readable
    /\ ~ df_shape.has_src
    /\ result = "none"

\* The translated values of `file` at the rows s .. e-1, in row order.
TranslatedRows(file, s, e) == [k \in 1..(e - s) |-> <<file, 1, s + k - 1>>]

\* C8: for every locale source that passes validation and every module with
\* offset (s, e), the module's output table receives a column named by the
\* locale code holding exactly the locale's translated values at rows s..e-1,
\* whether or not the sliced reference text equals the module's list; a
\* mismatch only warns.
C8_ColumnAssignedPositionally ==
    [][(/\ IterationDone
        /\ df_shape'.readable
        /\ df_shape'.has_src
        /\ df_shape'.ncols = 1
        /\ df_shape'.nrows = Len(concatenated_english)) =>
            /\ pc' = "MergingLocale"
            /\ attempted' = Append(attempted, lang_files[lang_idx])
            /\ \A m \in LoadedModules :
                LET locale == get_locale_code_from_filename(lang_files[lang_idx])
                    now == merged_dfs'[m]
                IN /\ now.base = module_bases[m]
                   /\ DOMAIN now.added = DOMAIN merged_dfs[m].added \cup {locale}
                   /\ now.added[locale] =
                          TranslatedRows(lang_files[lang_idx],
                                         offsets[m][1], offsets[m][2])
                   /\ \A c \in DOMAIN merged_dfs[m].added \ {locale} :
                          now.added[c] = merged_dfs[m].added[c]]_vars

\* A second file whose reference text mismatches a module of two rows: the
\* warning is out and the module's table holds the file's column.
C8_Witness ==
    /\ pc = "MergingLocale"
    /\ Len(attempted) = 2
    /\ last_outcome = "ok"
    /\ \E m \in warnings :
          /\ Len(module_english_lists[m]) = 2
          /\ offsets[m][1] > 0
          /\ merged_dfs[m].added[get_locale_code_from_filename(lang_files[2])]
                 = TranslatedRows(lang_files[2], offsets[m][1], offsets[m][2])

\* lang_files holds the files of the directory, ordered by lowercased stem.
SortedLocales ==
    /\ Len(lang_files) = Len(translations_glob)
    /\ Range(lang_files) = Range(translations_glob)
    /\ \A i, j \in 1..Len(lang_files) :
          i < j => ~ StrLess(SortKey(lang_files[j]), SortKey(lang_files[i]))

\* The run has returned True with every locale source attempted once, in sorted
\* order, and one write attempted per loaded module, failed or not.
FinalizedInFull ==
    /\ pc = "Finalized"
    /\ result = "True"
    /\ SortedLocales
    /\ attempted = lang_files
    /\ [i \in 1..Len(writes) |-> writes[i].module] = master_files
    /\ DOMAIN output = {writes[i].module : i \in {k \in 1..Len(writes) : writes[k].ok}}

\* C9: once offsets are computed the run always reaches Finalized, after every
\* locale source was attempted exactly once in sorted order; a write is
\* attempted for exactly one table per loaded module, and a failed write does
\* not prevent the write of another module's table.
C9_AlwaysFinalized ==
    (pc = "OffsetsComputed") ~> FinalizedInFull

\* A finished run of two modules and two locales: one locale skipped, one
\* merged; the first write failed and the second one was still made.
C9_Witness ==
    /\ pc = "Finalized"
    /\ Len(lang_files) = 2
    /\ Len(writes) = 2
    /\ ~ writes[1].ok
    /\ writes[2].ok
    /\ DOMAIN output = {master_files[2]}
    /\ Cardinality(DOMAIN merged_dfs[master_files[2]].added) = 1

\* C10: no locale is merged and no table is written unless module loading
\* succeeded and every module has a valid offset; each fatal failure ends the
\* run with a failure result before any merge step or output write.
C10_HardGate ==
    /\ (\/ pc \in {"MergingLocale", "Writing", "Finalized"}
        \/ merged_dfs # EmptyMap
        \/ ~ NothingMergedOrWritten) =>
            /\ master_files # <<>>
            /\ LoadedModules = Range(master_files)
            /\ \A m \in LoadedModules :
                  /\ module_bases[m].readable
                  /\ module_bases[m].has_src
                  /\ OffsetValid(m)
            /\ ~ FirstLocaleUnusable
            /\ Len(concatenated_english) = total_rows
    /\ (pc = "Failed") <=> (result = "False")
    /\ (pc = "Failed") <=> (failure # "none")
    /\ pc = "Failed" => merged_dfs = EmptyMap /\ NothingMergedOrWritten
    /\ (pc # "Idle" /\ modules_glob = <<>>) => pc = "Failed"
    /\ (pc \notin {"Idle", "LoadingModules", "ModulesLoaded"}
            /\ translations_glob = <<>>) => pc = "Failed"

\* No locale sources at all: the run failed and nothing was written.
C10_Witness ==
    /\ pc = "Failed"
    /\ failure = "no_language_files"
    /\ Len(master_files) = 2
    /\ translations_glob = <<>>
    /\ result = "False"
    /\ output = EmptyMap

====
